---- MODULE Spec2Model ----
(***************************************************************************)
(* Model of concretize.py: the concreteness scorer                         *)
(* (compute_text_concreteness) as a step machine, and the lexicon builder  *)
(* and field loop of process_text_data.                                    *)
(*                                                                         *)
(* A Python str is a sequence of one-character strings.  A Python value is *)
(* a record [type, val]: type "str" carries the characters in val, any     *)
(* other type is a non-string.  A rating and a score are exact rationals:  *)
(* a rating is an integer, a score is a pair <<num, den>> in lowest terms  *)
(* with den > 0.                                                           *)
(***************************************************************************)
EXTENDS Integers, Sequences, FiniteSets, TLC

VARIABLES
    \* compute_text_concreteness
    input,         \* the argument `text` as passed by the caller
    text,          \* the local `text`, reassigned at lines 32-33
    unigram_dict,
    bigram_dict,
    tokens,
    ratings,
    i,
    reads,         \* indices of `tokens` read by the last loop iteration
    result,        \* the returned value
    \* a second call, on a respelling of `input`
    variant,
    variant_result,
    \* process_text_data
    concreteness_csv,      \* the rows of the ratings file
    conc_df,
    row_idx,               \* rows of conc_df the loop of line 86 has consumed
    text_data_csv,         \* the table of the text file: column -> cells
    text_df,
    text_fields,
    field_idx,             \* position of the `for field` loop in text_fields
    concreteness_scores,
    calls,                 \* the scorer calls made: <<field, row index>>
    scored,                \* the fields whose scores line 102 assigned
    warnings,              \* the fields line 104 warned about
    output_csv,            \* the table written at line 107
    pc

scorerVars == <<input, text, tokens, ratings, i, reads, result>>
dictVars == <<unigram_dict, bigram_dict>>
variantVars == <<variant, variant_result>>
lexVars == <<concreteness_csv, conc_df, row_idx>>
fieldVars ==
    <<text_data_csv, text_df, text_fields, field_idx, concreteness_scores,
      calls, scored, warnings, output_csv>>

vars == <<scorerVars, dictVars, variantVars, lexVars, fieldVars, pc>>

\* ---------------------------------------------------------------- bounds
MaxNoisyLen == 3
MaxWords == 3
MaxRatingRows == 3
MaxTextRows == 2
MaxFields == 2

\* ---------------------------------------------------------------- values
PyStr(s) == [type |-> "str", val |-> s]
NaN == [type |-> "float", val |-> <<>>]
None == [type |-> "NoneType", val |-> <<>>]

isinstance_str(v) == v.type = "str"

\* Character classes of the re module (str patterns) and of str methods.
IsDigit(c) == c \in {"0", "1"}
IsWordChar(c) == c \in {"a", "b", "A", "B", "_"} \/ IsDigit(c)
IsSpace(c) == c \in {" "}

LowerChar(c) == CASE c = "A" -> "a" [] c = "B" -> "b" [] OTHER -> c

\* re.sub(r'[^\w\s]', '', text)
RemovePunct(s) == SelectSeq(s, LAMBDA c : IsWordChar(c) \/ IsSpace(c))

\* re.sub(r'\d+', '', text)
RemoveDigits(s) == SelectSeq(s, LAMBDA c : ~IsDigit(c))

RECURSIVE LStrip(_)
LStrip(s) == IF s # <<>> /\ IsSpace(Head(s)) THEN LStrip(Tail(s)) ELSE s

RECURSIVE RStrip(_)
RStrip(s) ==
    IF s # <<>> /\ IsSpace(s[Len(s)]) THEN RStrip(SubSeq(s, 1, Len(s) - 1)) ELSE s

\* str.strip()
Strip(s) == RStrip(LStrip(s))

\* str.lower()
Lower(s) == [k \in 1..Len(s) |-> LowerChar(s[k])]

\* Length of the leading run of non-whitespace characters of s.
RECURSIVE WordLen(_)
WordLen(s) == IF s = <<>> \/ IsSpace(Head(s)) THEN 0 ELSE 1 + WordLen(Tail(s))

\* str.split() with no argument: split on runs of whitespace, no empty tokens.
RECURSIVE Split(_)
Split(s) ==
    IF s = <<>> THEN <<>>
    ELSE IF IsSpace(Head(s)) THEN Split(Tail(s))
    ELSE <<SubSeq(s, 1, WordLen(s))>> \o Split(SubSeq(s, WordLen(s) + 1, Len(s)))

\* Lines 32-33: both substitutions, then strip.
Normalize(s) == Strip(RemoveDigits(RemovePunct(s)))

\* Line 38 without lower().
TokenizeNoLower(s) == Split(s)

\* Line 38.
Tokenize(s) == Split(Lower(s))

\* ---------------------------------------------------------------- scores
RECURSIVE Sum(_)
Sum(s) == IF s = <<>> THEN 0 ELSE Head(s) + Sum(Tail(s))

Abs(n) == IF n < 0 THEN -n ELSE n

RECURSIVE Gcd(_, _)
Gcd(a, b) == IF b = 0 THEN a ELSE Gcd(b, a % b)

\* The rational n/d (d > 0) in lowest terms.
Frac(n, d) == LET g == Gcd(Abs(n), d) IN <<n \div g, d \div g>>

\* The int -1 of lines 29, 36 and 55; Python's -1 == -1.0.
Sentinel == Frac(-1, 1)

\* Line 55 with 0 for an empty list.
MeanZeroWhenEmpty(rs) == IF rs # <<>> THEN Frac(Sum(rs), Len(rs)) ELSE Frac(0, 1)

\* Line 55 with floor division (//).
MeanFloorDiv(rs) == IF rs # <<>> THEN Frac(Sum(rs) \div Len(rs), 1) ELSE Sentinel

\* Line 55.
Mean(rs) == IF rs # <<>> THEN Frac(Sum(rs), Len(rs)) ELSE Sentinel

\* ---------------------------------------------------------------- scan
\* tokens[k] of the source, k counted from 0.
Tok(ts, k) == ts[k + 1]

\* Line 43 with the bound off by one.
HasNextOffByOne(ts, k) == k < Len(ts)

\* Line 43.
HasNext(ts, k) == k < Len(ts) - 1

\* Line 44.
CandidateBigram(ts, k) == Tok(ts, k) \o <<" ">> \o Tok(ts, k + 1)

\* The loop body with the unigram test first: a token that is a unigram key
\* is never tried as the head of a bigram.
LoopBodyUnigramFirst(ts, k, rs, ud, bd) ==
    IF Tok(ts, k) \in DOMAIN ud
    THEN [branch |-> "unigram", i |-> k + 1,
          ratings |-> Append(rs, ud[Tok(ts, k)]), reads |-> {k}]
    ELSE IF HasNext(ts, k) /\ CandidateBigram(ts, k) \in DOMAIN bd
    THEN [branch |-> "bigram", i |-> k + 2,
          ratings |-> Append(rs, bd[CandidateBigram(ts, k)]),
          reads |-> {k, k + 1}]
    ELSE [branch |-> "unigram", i |-> k + 1, ratings |-> rs,
          reads |-> IF HasNext(ts, k) THEN {k, k + 1} ELSE {k}]

\* One iteration of the while loop (lines 42-53) at cursor k with the ratings
\* rs collected so far: the branch taken, the new cursor and ratings and the
\* indices of ts that were read.  tokens[i+1] past the end raises IndexError.
LoopBody(ts, k, rs, ud, bd) ==
    IF HasNext(ts, k) /\ k + 1 >= Len(ts)
    THEN [branch |-> "IndexError", i |-> k, ratings |-> rs, reads |-> {k, k + 1}]
    ELSE IF HasNext(ts, k) /\ CandidateBigram(ts, k) \in DOMAIN bd
    THEN [branch |-> "bigram", i |-> k + 2,
          ratings |-> Append(rs, bd[CandidateBigram(ts, k)]),
          reads |-> {k, k + 1}]
    ELSE [branch |-> "unigram", i |-> k + 1,
          ratings |-> IF Tok(ts, k) \in DOMAIN ud
                      THEN Append(rs, ud[Tok(ts, k)]) ELSE rs,
          reads |-> IF HasNext(ts, k) THEN {k, k + 1} ELSE {k}]

\* The whole loop from cursor k: the ratings list at exit.
RECURSIVE Scan(_, _, _, _, _)
Scan(ts, k, rs, ud, bd) ==
    IF k < Len(ts)
    THEN LET b == LoopBody(ts, k, rs, ud, bd)
         IN  Scan(ts, b.i, b.ratings, ud, bd)
    ELSE rs

\* The function as a whole (lines 28-55).
compute_text_concreteness(v, ud, bd) ==
    IF ~isinstance_str(v) THEN Sentinel
    ELSE IF Normalize(v.val) = <<>> THEN Sentinel
    ELSE Mean(Scan(Tokenize(Normalize(v.val)), 0, <<>>, ud, bd))

\* ---------------------------------------------------------------- inputs
Ratings == {-1, 3, 5}

NoisyAlphabet == {"a", "b", "B", "!", "1", " "}
Words == {<<"a">>, <<"b">>, <<"a", "b">>}

SeqsUpTo(S, n) == UNION {[1..m -> S] : m \in 0..n}

RECURSIVE Join(_)
Join(ws) ==
    IF ws = <<>> THEN <<>>
    ELSE IF Len(ws) = 1 THEN ws[1]
    ELSE ws[1] \o <<" ">> \o Join(Tail(ws))

\* Raw strings: every string over NoisyAlphabet up to MaxNoisyLen characters,
\* and every sentence of 1..MaxWords words separated by single spaces.
Strings ==
    SeqsUpTo(NoisyAlphabet, MaxNoisyLen)
        \cup {Join(ws) : ws \in SeqsUpTo(Words, MaxWords)}

TextValues == {PyStr(s) : s \in Strings} \cup {NaN, None}

UnigramKeys == {<<"a">>, <<"b">>}
BigramKeys == {<<"a", " ", "b">>}

Dicts(K) == UNION {[D -> Ratings] : D \in SUBSET K}

\* ---------------------------------------------------------------- scorer
\* The parts of the state a specification does not use.
ScorerIdle ==
    /\ text = None /\ tokens = <<>> /\ ratings = <<>> /\ i = 0 /\ reads = {}

VariantIdle == variant = None /\ variant_result = None

LexIdle == concreteness_csv = <<>> /\ conc_df = <<>> /\ row_idx = 0

FieldsIdle ==
    /\ text_data_csv = <<>> /\ text_df = <<>> /\ text_fields = <<>>
    /\ field_idx = 0 /\ concreteness_scores = <<>> /\ calls = <<>>
    /\ scored = <<>> /\ warnings = <<>> /\ output_csv = None

Init ==
    /\ input \in TextValues
    /\ text = input
    /\ unigram_dict \in Dicts(UnigramKeys)
    /\ bigram_dict \in Dicts(BigramKeys)
    /\ tokens = <<>>
    /\ ratings = <<>>
    /\ i = 0
    /\ reads = {}
    /\ result = None
    /\ pc = "line28"
    /\ VariantIdle /\ LexIdle /\ FieldsIdle

\* Lines 28-29.
ReturnNotStr ==
    /\ pc = "line28"
    /\ ~isinstance_str(text)
    /\ result' = Sentinel
    /\ pc' = "done"
    /\ UNCHANGED <<input, text, tokens, ratings, i, reads, dictVars, variantVars, lexVars, fieldVars>>

\* Lines 28, 32-33 with a text that is left non-empty.
NormalizeText ==
    /\ pc = "line28"
    /\ isinstance_str(text)
    /\ Normalize(text.val) # <<>>
    /\ text' = PyStr(Normalize(text.val))
    /\ pc' = "line38"
    /\ UNCHANGED <<input, tokens, ratings, i, reads, result, dictVars, variantVars, lexVars, fieldVars>>

\* Lines 28, 32-36 with a text that is left empty.
ReturnEmpty ==
    /\ pc = "line28"
    /\ isinstance_str(text)
    /\ Normalize(text.val) = <<>>
    /\ text' = PyStr(Normalize(text.val))
    /\ result' = Sentinel
    /\ pc' = "done"
    /\ UNCHANGED <<input, tokens, ratings, i, reads, dictVars, variantVars, lexVars, fieldVars>>

\* Lines 38-40.
Tokens ==
    /\ pc = "line38"
    /\ tokens' = Tokenize(text.val)
    /\ ratings' = <<>>
    /\ i' = 0
    /\ pc' = "line41"
    /\ UNCHANGED <<input, text, reads, result, dictVars, variantVars, lexVars, fieldVars>>

\* Lines 41-48: the candidate bigram is a key; append its rating, `continue`.
ScanBigram ==
    /\ pc = "line41"
    /\ i < Len(tokens)
    /\ LET b == LoopBody(tokens, i, ratings, unigram_dict, bigram_dict)
       IN  /\ b.branch \in {"bigram", "IndexError"}
           /\ i' = b.i
           /\ ratings' = b.ratings
           /\ reads' = b.reads
           /\ pc' = IF b.branch = "IndexError" THEN "raised" ELSE "line41"
    /\ UNCHANGED <<input, text, tokens, result, dictVars, variantVars, lexVars, fieldVars>>

\* Lines 41-45 without a bigram match, then lines 50-53.
ScanUnigram ==
    /\ pc = "line41"
    /\ i < Len(tokens)
    /\ LET b == LoopBody(tokens, i, ratings, unigram_dict, bigram_dict)
       IN  /\ b.branch = "unigram"
           /\ i' = b.i
           /\ ratings' = b.ratings
           /\ reads' = b.reads
           /\ pc' = "line41"
    /\ UNCHANGED <<input, text, tokens, result, dictVars, variantVars, lexVars, fieldVars>>

\* Line 41 (loop exit) and line 55.
Return ==
    /\ pc = "line41"
    /\ ~(i < Len(tokens))
    /\ result' = Mean(ratings)
    /\ pc' = "done"
    /\ UNCHANGED <<input, text, tokens, ratings, i, reads, dictVars, variantVars, lexVars, fieldVars>>

Next == ReturnNotStr \/ NormalizeText \/ ReturnEmpty \/ Tokens \/ ScanBigram \/ ScanUnigram \/ Return

Spec == Init /\ [][Next]_vars

\* ---------------------------------------------------------------- claims on the scorer
Finished == pc \in {"done", "raised"}

\* Every character of the raw text is removed by lines 32-33: it is
\* punctuation, a digit or whitespace.
OnlyNoise(v) ==
    /\ isinstance_str(v)
    /\ \A k \in 1..Len(v.val) :
          \/ ~(IsWordChar(v.val[k]) \/ IsSpace(v.val[k]))
          \/ IsDigit(v.val[k])
          \/ IsSpace(v.val[k])

\* No token is a key of either mapping and no pair of adjacent tokens, joined
\* by one space, is a key of the bigram mapping.
NothingMatches ==
    /\ \A k \in 1..Len(tokens) :
          tokens[k] \notin DOMAIN unigram_dict /\ tokens[k] \notin DOMAIN bigram_dict
    /\ \A k \in 1..(Len(tokens) - 1) :
          (tokens[k] \o <<" ">> \o tokens[k + 1]) \notin DOMAIN bigram_dict

\* C1: in each of the three no-score cases the call returns, without raising,
\* the sentinel -1 (and so not 0): (a) the argument is not a str, (b) the
\* argument is a str of punctuation, digits and whitespace only, (c) there is
\* at least one token and nothing matches.
C1_NoScoreIsSentinel ==
    /\ Finished /\ ~isinstance_str(input) => pc = "done" /\ result = Sentinel
    /\ Finished /\ OnlyNoise(input) => pc = "done" /\ result = Sentinel
    /\ Finished /\ Len(tokens) >= 1 /\ NothingMatches =>
          pc = "done" /\ result = Sentinel /\ result # Frac(0, 1)

C1_Witness ==
    /\ pc = "done"
    /\ Len(tokens) >= 2
    /\ NothingMatches
    /\ unigram_dict # <<>> /\ bigram_dict # <<>>
    /\ result = Sentinel

\* C2: the sentinel is distinct from a computed average: whenever at least one
\* rating was collected, the returned mean differs from -1.
C2_SentinelDistinct == pc = "done" /\ ratings # <<>> => result # Sentinel

\* The pair of tokens at indices k, k+1 exists and, joined by one space, is a
\* key of the bigram mapping.
BigramAt(k) ==
    /\ k < Len(tokens) - 1
    /\ (tokens[k + 1] \o <<" ">> \o tokens[k + 2]) \in DOMAIN bigram_dict

\* C3: at a cursor that is not the last index and whose candidate bigram is a
\* key of the bigram mapping, the iteration appends exactly that bigram's
\* rating and advances the cursor by 2, whatever the unigram mapping holds; a
\* two-token text that is a bigram key scores exactly the bigram's rating.
C3_BigramPrecedence ==
    /\ [][pc = "line41" /\ BigramAt(i) =>
            /\ ratings' = Append(ratings, bigram_dict[tokens[i + 1] \o <<" ">> \o tokens[i + 2]])
            /\ i' = i + 2]_vars
    /\ [](Finished /\ Len(tokens) = 2 /\ BigramAt(0) =>
            result = <<bigram_dict[tokens[1] \o <<" ">> \o tokens[2]], 1>>)

C3_Witness ==
    /\ pc = "done"
    /\ tokens = <<<<"a">>, <<"b">>>>
    /\ DOMAIN unigram_dict = {<<"a">>, <<"b">>}
    /\ BigramAt(0)
    /\ unigram_dict[<<"a">>] # bigram_dict[<<"a", " ", "b">>]
    /\ ratings = <<bigram_dict[<<"a", " ", "b">>]>>

\* The ratings the tokens from index k on contribute: one per matched bigram,
\* one per token outside a matched bigram that is a unigram key, in order.
RECURSIVE Contribution(_)
Contribution(k) ==
    IF k >= Len(tokens) THEN <<>>
    ELSE IF BigramAt(k)
    THEN <<bigram_dict[tokens[k + 1] \o <<" ">> \o tokens[k + 2]]>> \o Contribution(k + 2)
    ELSE IF tokens[k + 1] \in DOMAIN unigram_dict
    THEN <<unigram_dict[tokens[k + 1]]>> \o Contribution(k + 1)
    ELSE Contribution(k + 1)

\* C4: the collected ratings are exactly the contributions of the tokens, with
\* multiplicity, unmatched tokens adding nothing; when there is at least one
\* the result is their sum divided by their number ({a: 3, b: 5} and the
\* text "ab a b" give (3 + 5) / 2 = 4).
C4_MeanOfContributions ==
    /\ pc = "line41" => ratings \o Contribution(i) = Contribution(0)
    /\ Finished /\ ratings # <<>> =>
          /\ pc = "done"
          /\ ratings = Contribution(0)
          /\ result[2] > 0
          /\ result[1] * Len(ratings) = Sum(ratings) * result[2]
    /\ /\ Finished
       /\ tokens = <<<<"a", "b">>, <<"a">>, <<"b">>>>
       /\ unigram_dict = (<<"a">> :> 3 @@ <<"b">> :> 5)
       /\ bigram_dict = <<>>
       => result = <<4, 1>>

C4_Witness ==
    /\ pc = "done"
    /\ Len(tokens) = 3
    /\ Len(ratings) = 2
    /\ tokens[1] = tokens[3]
    /\ tokens[2] \notin DOMAIN unigram_dict
    /\ result[2] = 1 /\ result[1] = unigram_dict[tokens[1]]

\* C10: the cursor stays within 0..len(tokens), every iteration advances it by
\* exactly 1 or 2, only indices within the list are read, the loop cannot get
\* stuck and exits with the cursor at len(tokens); no more ratings are
\* collected than tokens consumed.
C10_ScanProgress ==
    /\ [](/\ 0 <= i /\ i <= Len(tokens)
          /\ reads \subseteq 0..(Len(tokens) - 1)
          /\ Len(ratings) <= i
          /\ pc # "raised"
          /\ pc = "line41" => ENABLED (ScanBigram \/ ScanUnigram \/ Return)
          /\ pc = "done" /\ tokens # <<>> => i = Len(tokens))
    /\ [][pc = "line41" /\ pc' = "line41" => i' \in {i + 1, i + 2} /\ i' <= Len(tokens)]_vars

C10_Witness ==
    /\ pc = "done"
    /\ Len(tokens) = 3
    /\ i = 3
    /\ Len(ratings) = 2
    /\ BigramAt(1)

\* ---------------------------------------------------------------- two spellings of one text
SwapCaseChar(c) ==
    CASE c = "a" -> "A" [] c = "A" -> "a" [] c = "b" -> "B" [] c = "B" -> "b"
      [] OTHER -> c

InsertAt(s, p, c) == SubSeq(s, 1, p) \o <<c>> \o SubSeq(s, p + 1, Len(s))

\* The strings that differ from s by one edit that leaves its words alone: the
\* case of one letter, one added punctuation mark or digit anywhere, one added
\* whitespace character at either end or next to whitespace.
Respellings(s) ==
    {[s EXCEPT ![p] = SwapCaseChar(s[p])] : p \in 1..Len(s)}
        \cup {InsertAt(s, p, c) : p \in 0..Len(s), c \in {"!", "1"}}
        \cup {InsertAt(s, p, " ") :
                p \in {q \in 0..Len(s) :
                         \/ q = 0 \/ q = Len(s)
                         \/ IsSpace(s[q]) \/ IsSpace(s[q + 1])}}

\* Lexicons with lowercase keys, one rating per key.
LowercaseUnigramDicts ==
    {[w \in D |-> IF w = <<"a">> THEN 3 ELSE 5] : D \in SUBSET UnigramKeys}

LowercaseBigramDicts == {[w \in D |-> -1] : D \in SUBSET BigramKeys}

InitPair ==
    /\ input \in {PyStr(s) : s \in Strings}
    /\ variant \in {PyStr(s) : s \in Respellings(input.val)}
    /\ unigram_dict \in LowercaseUnigramDicts
    /\ bigram_dict \in LowercaseBigramDicts
    /\ result = None
    /\ variant_result = None
    /\ pc = "call_input"
    /\ ScorerIdle /\ LexIdle /\ FieldsIdle

\* compute_text_concreteness(input, unigram_dict, bigram_dict)
CallOnInput ==
    /\ pc = "call_input"
    /\ result' = compute_text_concreteness(input, unigram_dict, bigram_dict)
    /\ pc' = "call_variant"
    /\ UNCHANGED <<input, text, tokens, ratings, i, reads, dictVars, variantVars, lexVars, fieldVars>>

\* compute_text_concreteness(variant, unigram_dict, bigram_dict)
CallOnVariant ==
    /\ pc = "call_variant"
    /\ variant_result' = compute_text_concreteness(variant, unigram_dict, bigram_dict)
    /\ pc' = "done"
    /\ UNCHANGED <<scorerVars, dictVars, variant, lexVars, fieldVars>>

NextPair == CallOnInput \/ CallOnVariant

SpecPair == InitPair /\ [][NextPair]_vars

\* C5: with lowercase keys, two texts that differ only in letter case, in
\* added punctuation and digits, or in extra whitespace around and between
\* words get the same score.
C5_SameWordsSameScore == pc = "done" => result = variant_result

C5_Witness ==
    /\ pc = "done"
    /\ input = PyStr(<<"b">>)
    /\ variant = PyStr(<<"B">>)
    /\ result = <<5, 1>>
    /\ variant_result = <<5, 1>>

\* ---------------------------------------------------------------- lexicon builder
\* d[k] = v on a dict.
SetItemIfAbsent(d, k, v) == IF k \in DOMAIN d THEN d ELSE (k :> v) @@ d

SetItem(d, k, v) == [x \in DOMAIN d \cup {k} |-> IF x = k THEN v ELSE d[x]]

\* conc_df.dropna(subset=["Word"])
DropNaWord(rows) == SelectSeq(rows, LAMBDA r : isinstance_str(r.Word))

\* conc_df["Word"].astype(str).str.lower()
LowerWord(rows) ==
    [k \in 1..Len(rows) |-> [rows[k] EXCEPT !.Word = PyStr(Lower(rows[k].Word.val))]]

\* Lines 87-92 on one row: the two dicts after it.
RouteRow(row, ud, bd) ==
    IF row.Bigram = 1
    THEN <<ud, SetItem(bd, Strip(row.Word.val), row.ConcM)>>
    ELSE <<SetItem(ud, Strip(row.Word.val), row.ConcM), bd>>

RawWords == {PyStr(<<"a">>), PyStr(<<"A", " ">>), PyStr(<<"a", " ", "b">>), NaN}
RowRatings == {3, 5}
RatingRows == [Word : RawWords, ConcM : RowRatings, Bigram : {0, 1}]

InitLexicon ==
    /\ concreteness_csv \in SeqsUpTo(RatingRows, MaxRatingRows)
    /\ conc_df = <<>>
    /\ row_idx = 0
    /\ unigram_dict = <<>>
    /\ bigram_dict = <<>>
    /\ input = None /\ result = None
    /\ pc = "line79"
    /\ ScorerIdle /\ VariantIdle /\ FieldsIdle

\* Lines 79-85.
ReadRatings ==
    /\ pc = "line79"
    /\ conc_df' = LowerWord(DropNaWord(concreteness_csv))
    /\ unigram_dict' = <<>>
    /\ bigram_dict' = <<>>
    /\ row_idx' = 0
    /\ pc' = "line86"
    /\ UNCHANGED <<scorerVars, variantVars, concreteness_csv, fieldVars>>

\* Lines 86-92, one row.
BuildRow ==
    /\ pc = "line86"
    /\ row_idx < Len(conc_df)
    /\ LET d == RouteRow(conc_df[row_idx + 1], unigram_dict, bigram_dict)
       IN  unigram_dict' = d[1] /\ bigram_dict' = d[2]
    /\ row_idx' = row_idx + 1
    /\ UNCHANGED <<scorerVars, variantVars, concreteness_csv, conc_df, fieldVars, pc>>

\* Line 86, rows exhausted.
BuildDone ==
    /\ pc = "line86"
    /\ row_idx = Len(conc_df)
    /\ pc' = "line95"
    /\ UNCHANGED <<scorerVars, dictVars, variantVars, lexVars, fieldVars>>

NextLexicon == ReadRatings \/ BuildRow \/ BuildDone

SpecLexicon == InitLexicon /\ [][NextLexicon]_vars

\* C6: after the lexicon is built, the key sets of the two mappings are
\* disjoint.
C6_KeySetsDisjoint ==
    pc = "line95" => DOMAIN unigram_dict \cap DOMAIN bigram_dict = {}

\* The rows of the ratings file routed to the bigram (flag = 1) or unigram
\* mapping whose phrase, lowercased and trimmed, is key.
RoutedRows(key, flag) ==
    {k \in 1..Len(concreteness_csv) :
        /\ isinstance_str(concreteness_csv[k].Word)
        /\ Strip(Lower(concreteness_csv[k].Word.val)) = key
        /\ (concreteness_csv[k].Bigram = 1) = flag}

RoutedKeys(flag) ==
    {Strip(Lower(concreteness_csv[k].Word.val)) :
        k \in {j \in 1..Len(concreteness_csv) :
                 /\ isinstance_str(concreteness_csv[j].Word)
                 /\ (concreteness_csv[j].Bigram = 1) = flag}}

LastOf(S) == CHOOSE k \in S : \A j \in S : j <= k

\* C7: every key of a mapping holds the rating of the last row of the file
\* routed to that mapping whose phrase is the key up to case and surrounding
\* whitespace; the keys are exactly the phrases so routed.
C7_LastWriteWins ==
    pc = "line95" =>
        /\ DOMAIN unigram_dict = RoutedKeys(FALSE)
        /\ DOMAIN bigram_dict = RoutedKeys(TRUE)
        /\ \A key \in DOMAIN unigram_dict :
              unigram_dict[key] = concreteness_csv[LastOf(RoutedRows(key, FALSE))].ConcM
        /\ \A key \in DOMAIN bigram_dict :
              bigram_dict[key] = concreteness_csv[LastOf(RoutedRows(key, TRUE))].ConcM

C7_Witness ==
    /\ pc = "line95"
    /\ Len(concreteness_csv) = 3
    /\ concreteness_csv[1] = [Word |-> PyStr(<<"a">>), ConcM |-> 5, Bigram |-> 0]
    /\ concreteness_csv[2] = [Word |-> PyStr(<<"A", " ">>), ConcM |-> 3, Bigram |-> 0]
    /\ concreteness_csv[3].Bigram = 1
    /\ unigram_dict = (<<"a">> :> 3)

\* ---------------------------------------------------------------- field loop
PyFloat(q) == [type |-> "float", val |-> q]

\* f"avg_conc_{field}"
AvgConcName(field) == "avg_conc_" \o field

Range(f) == {f[x] : x \in DOMAIN f}

\* len(text_df): every column holds one cell per row.
NumRows(df) == Len(df[CHOOSE c \in DOMAIN df : TRUE])

\* text_df[name] = scores (line 102): a new column, or the column replaced.
SetColumn(df, name, scores) ==
    SetItem(df, name, [k \in 1..Len(scores) |-> PyFloat(scores[k])])

\* The cells read_csv(dtype=str) yields: a str, or NaN for an empty cell.
CellValues == {PyStr(<<"a">>), PyStr(<<"a", " ", "b">>), NaN}

InputColumns == {"headline", AvgConcName("headline")}
FieldNames == {"headline", "abstract", AvgConcName("headline")}

Tables ==
    UNION {[cols -> [1..n -> CellValues]] :
             cols \in (SUBSET InputColumns) \ {{}}, n \in 0..MaxTextRows}

\* The state at line 95, the lexicon built.
InitFields ==
    /\ text_data_csv \in Tables
    /\ text_df = text_data_csv
    /\ text_fields \in SeqsUpTo(FieldNames, MaxFields)
    /\ unigram_dict = (<<"a">> :> 3 @@ <<"b">> :> 5)
    /\ bigram_dict = (<<"a", " ", "b">> :> 5)
    /\ field_idx = 0
    /\ concreteness_scores = <<>>
    /\ calls = <<>>
    /\ scored = <<>>
    /\ warnings = <<>>
    /\ output_csv = None
    /\ input = None /\ result = None
    /\ pc = "line95"
    /\ ScorerIdle /\ VariantIdle /\ LexIdle

\* Lines 95-97: the field is a column of text_df.
FieldFound ==
    /\ pc = "line95"
    /\ field_idx < Len(text_fields)
    /\ text_fields[field_idx + 1] \in DOMAIN text_df
    /\ concreteness_scores' = <<>>
    /\ pc' = "line98"
    /\ UNCHANGED <<scorerVars, dictVars, variantVars, lexVars, text_data_csv, text_df,
                   text_fields, field_idx, calls, scored, warnings, output_csv>>

\* Lines 98-101, one row.
ScoreRow ==
    /\ pc = "line98"
    /\ Len(concreteness_scores) < NumRows(text_df)
    /\ LET field == text_fields[field_idx + 1]
           row == Len(concreteness_scores) + 1
       IN  /\ concreteness_scores' =
                Append(concreteness_scores,
                       compute_text_concreteness(text_df[field][row], unigram_dict, bigram_dict))
           /\ calls' = Append(calls, <<field, row>>)
    /\ UNCHANGED <<scorerVars, dictVars, variantVars, lexVars, text_data_csv, text_df,
                   text_fields, field_idx, scored, warnings, output_csv, pc>>

\* Line 102, then the next field.
AssignColumn ==
    /\ pc = "line98"
    /\ Len(concreteness_scores) = NumRows(text_df)
    /\ text_df' = SetColumn(text_df, AvgConcName(text_fields[field_idx + 1]), concreteness_scores)
    /\ scored' = Append(scored, text_fields[field_idx + 1])
    /\ field_idx' = field_idx + 1
    /\ pc' = "line95"
    /\ UNCHANGED <<scorerVars, dictVars, variantVars, lexVars, text_data_csv, text_fields,
                   concreteness_scores, calls, warnings, output_csv>>

\* Lines 95-96, 103-104: the field is no column of text_df.
WarnNotFound ==
    /\ pc = "line95"
    /\ field_idx < Len(text_fields)
    /\ text_fields[field_idx + 1] \notin DOMAIN text_df
    /\ warnings' = Append(warnings, text_fields[field_idx + 1])
    /\ field_idx' = field_idx + 1
    /\ UNCHANGED <<scorerVars, dictVars, variantVars, lexVars, text_data_csv, text_df,
                   text_fields, concreteness_scores, calls, scored, output_csv, pc>>

\* Line 107.
Save ==
    /\ pc = "line95"
    /\ field_idx = Len(text_fields)
    /\ output_csv' = text_df
    /\ pc' = "done"
    /\ UNCHANGED <<scorerVars, dictVars, variantVars, lexVars, text_data_csv, text_df,
                   text_fields, field_idx, concreteness_scores, calls, scored, warnings>>

NextFields == FieldFound \/ ScoreRow \/ AssignColumn \/ WarnNotFound \/ Save

SpecFields == InitFields /\ [][NextFields]_vars

\* The scorer calls made for the requested field at position k, in order.
CallsFor(k) == SelectSeq(calls, LAMBDA c : c[1] = text_fields[k])

\* C8: a requested field is scored (one scorer call per row in row order, and
\* an avg_conc_<field> column) if and only if it is a column of the input
\* table; a field that is not only gets a warning, and later fields are still
\* processed.
C8_ScoredIffInputColumn ==
    pc = "done" =>
        \A k \in 1..Len(text_fields) :
            LET field == text_fields[k] IN
            IF field \in DOMAIN text_data_csv
            THEN /\ field \in Range(scored)
                 /\ field \notin Range(warnings)
                 /\ AvgConcName(field) \in DOMAIN output_csv
                 /\ \A r \in 1..NumRows(text_data_csv) :
                       r <= Len(CallsFor(k)) /\ CallsFor(k)[r] = <<field, r>>
            ELSE /\ field \in Range(warnings)
                 /\ field \notin Range(scored)
                 /\ CallsFor(k) = <<>>

\* C9: every column of the input table is in the output with the same cells,
\* and the output columns are the input columns plus one avg_conc_<field>
\* column per scored field.
C9_InputColumnsKept ==
    pc = "done" =>
        /\ \A c \in DOMAIN text_data_csv :
              c \in DOMAIN output_csv /\ output_csv[c] = text_data_csv[c]
        /\ DOMAIN output_csv =
              DOMAIN text_data_csv \cup {AvgConcName(f) : f \in Range(scored)}

====
